---- MODULE Spec2Model ----
(***************************************************************************)
(* Model of the Specify 7 taxon import demo: main.py (the CSV import run), *)
(* taxon_helpers.py (the taxon lookups and updates) and session.py (the    *)
(* API session).  The remote store is a set of tables, each the sequence   *)
(* of the records the API serves; a record's id is its position, and a     *)
(* collection GET returns the matching records in id order.  Spec is a     *)
(* run of main(); SessionSpec is a client calling Session's methods in     *)
(* any order against a server answering with any status.                   *)
(***************************************************************************)
EXTENDS Integers, Sequences, FiniteSets, TLC

\* The longest CSV file.
MaxRows == 2

VARIABLES
    db,          \* the remote store: table name -> the table's records, by id
    TREE_DEF_ID, \* main.py global
    MAMMALIA,    \* main.py global
    DEF_ITEMS,   \* main.py global
    csv,         \* rows of taxon_to_import.csv
    taxon_ids,   \* main(): ids returned by proccess_row so far
    record_set,  \* main(): the created recordset (None before)
    pc,          \* main(): position
    log,         \* the HTTP requests of the last step
    prevTaxa,    \* the taxon table before the last step
    accepted,    \* the call of get_accepted in the last step of main()
    specifyuser, \* Session.specifyuser
    hierarchy,   \* Session._hierarchy
    csrf,        \* Session.session.headers["X-CSRFToken"]
    last         \* the last Session call: what it was given and what came of it

vars == <<db, TREE_DEF_ID, MAMMALIA, DEF_ITEMS, csv, taxon_ids, record_set, pc, log,
          prevTaxa, accepted, specifyuser, hierarchy, csrf, last>>

----------------------------------------------------------------------------
\* Python values

\* None where a URI or a record is expected
None == <<>>
\* None where a string is expected
NoneStr == "<None>"
\* None where an id is expected (the store's ids start at 1)
NoId == 0
\* no exception raised
NoExc == "<none>"

\* session.py: table.lower() on the table names the program uses
Lower(table) ==
    CASE table = "Taxon" -> "taxon"
      [] table = "Discipline" -> "discipline"
      [] table = "Collection" -> "collection"
      [] OTHER -> table

\* "/api/specify/<table>/<id>/" as the pair of its two parts
construct_api_link(table, id) == <<Lower(table), id>>

\* URI_RE's groups: the table, and the id (None when the URI ends after the table)
parse_uri(uri) == <<uri[1], IF Len(uri) >= 2 THEN uri[2] ELSE NoId>>

\* int(resource_id)
extract_id_from_uri(uri) == parse_uri(uri)[2]

----------------------------------------------------------------------------
\* The remote store

\* a record as the store serves it: the payload, its id and its URI
Stored(table, id, data) ==
    [id |-> id, resource_uri |-> construct_api_link(table, id)] @@ data

\* the taxontreedefitem table of tree definition 1
DefItemData(name, rankid) ==
    [name |-> name, rankid |-> rankid,
     treedef |-> construct_api_link("taxontreedef", 1)]

DefItemTable ==
    LET datas == << DefItemData("Phylum", 30), DefItemData("Class", 60),
                    DefItemData("Order", 100), DefItemData("Family", 140),
                    DefItemData("Genus", 180), DefItemData("Species", 220) >>
    IN [i \in 1..Len(datas) |-> Stored("taxontreedefitem", i, datas[i])]

\* the fields of a taxon payload the program reads back or filters on
TaxonData(name, author, acceptedtaxon, isaccepted, definitionitem, parent) ==
    [name |-> name, author |-> author, acceptedtaxon |-> acceptedtaxon,
     isaccepted |-> isaccepted, definitionitem |-> definitionitem,
     parent |-> parent]

\* the collection / discipline / division chain Session._update_hierarchy walks
ScopeTables ==
    [collection |-> <<Stored("collection", 1,
                        [discipline |-> construct_api_link("discipline", 1)])>>,
     discipline |-> <<Stored("discipline", 1,
                        [division |-> construct_api_link("division", 1),
                         taxontreedef |-> construct_api_link("taxontreedef", 1)])>>,
     division |-> <<Stored("division", 1,
                        [institution |-> construct_api_link("institution", 1)])>>]

\* the user record /context/user.json serves
User == Stored("specifyuser", 1, [name |-> "sp7demofish"])

\* the records matching a collection query, in id order
Objects(d, q) ==
    LET table == d[q.table]
        ParentName(t) == IF t.parent = None THEN NoneStr
                         ELSE d["taxon"][extract_id_from_uri(t.parent)].name
        Match(r) ==
            IF q.table = "taxon"
            THEN /\ r.name = q.name
                 /\ extract_id_from_uri(r.definitionitem) = q.definitionitem
                 /\ q.parent__name # NoneStr => ParentName(r) = q.parent__name
            ELSE /\ r.name = q.name
                 /\ extract_id_from_uri(r.treedef) = q.treedef
    IN SelectSeq(table, Match)

----------------------------------------------------------------------------
\* session.py

\* HTTP statuses a response may carry
Statuses == {200, 201, 204, 400, 403, 409, 500}

\* the request methods requests.Session provides
Provided == {"GET", "PUT", "POST", "DELETE", "PATCH", "HEAD", "OPTIONS"}

\* The state an operation runs in: the store, main.py's globals, the
\* session, the requests sent so far, the exception raised, the value
\* returned, and in acc what the call of get_accepted was given and gave.  inj is what the server does: the failAt-th request gets the
\* response status instead of its regular one (json: whether that response's
\* body is JSON), and cookie: whether the login response sets csrftoken.
Ctx(d, g, sess, inj) ==
    [db |-> d, g |-> g, user |-> sess.user, hier |-> sess.hier,
     csrf |-> sess.csrf, failAt |-> inj.failAt, status |-> inj.status,
     json |-> inj.json, cookie |-> inj.cookie,
     n |-> 0, log |-> <<>>, exc |-> NoExc, resp |-> 0, ret |-> None,
     acc |-> None]

\* a server that answers every request regularly
Regular == [failAt |-> 0, status |-> 200, json |-> TRUE, cookie |-> TRUE]

\* a server whose answer to the k-th request is an error
FailAt(k) == [failAt |-> k, status |-> 500, json |-> FALSE, cookie |-> TRUE]

Raise(c, e) == [c EXCEPT !.exc = e, !.ret = None]

Return(c, v) == [c EXCEPT !.ret = v]

Raised(c) == c.exc # NoExc

\* Sequencing, as Python does it: run the first part; if it raised, the
\* exception propagates, otherwise the rest runs in the state it left.
Try(first, rest(_)) ==
    CHOOSE r \in {IF Raised(c) THEN c ELSE rest(c) : c \in {first}} : TRUE

\* the status of the response to the next request
Response(c, regular) == IF c.n + 1 = c.failAt THEN c.status ELSE regular

\* Session.send_request: resp is the status of the response; the log keeps
\* each request sent with the status it was answered with
send_request(c, by, method, table, id, data, regular) ==
    IF method \notin Provided THEN Raise(c, "InvalidMethod")
    ELSE [c EXCEPT !.n = @ + 1,
                   !.log = Append(@, [by |-> by, method |-> method,
                                      table |-> table, id |-> id,
                                      data |-> data,
                                      status |-> Response(c, regular)]),
                   !.resp = Response(c, regular)]

\* ensure_login without its check
ensure_login_unchecked(c) == c

\* the ensure_login decorator's check
ensure_login(c) ==
    IF c.user = None THEN Raise(c, "Must be logged in") ELSE c

\* Session.fetch_resource
fetch_resource(c, by, table, resource_id) ==
    Try(ensure_login(c), LAMBDA c0 :
    Try(send_request(c0, by, "GET", Lower(table), resource_id, None, 200),
        LAMBDA c1 :
          IF c1.resp = 403 THEN Raise(c1, "NoPermission")
          ELSE IF c1.resp # 200 THEN Raise(c1, "Exception")
          ELSE Return(c1, c1.db[Lower(table)][resource_id])))

\* Session.fetch_collection
fetch_collection(c, by, q) ==
    Try(ensure_login(c), LAMBDA c0 :
    Try(send_request(c0, by, "GET", q.table, NoId, q, 200), LAMBDA c1 :
          IF c1.resp = 403 THEN Raise(c1, "NoPermission")
          ELSE IF c1.resp # 200 THEN Raise(c1, "Exception")
          ELSE Return(c1, Objects(c1.db, q))))

\* Session.create_resource: the store gives the record the next id
create_resource(c, by, table, data) ==
    Try(ensure_login(c), LAMBDA c0 :
    Try(send_request(c0, by, "POST", Lower(table), NoId, data, 201),
        LAMBDA c1 :
          IF c1.resp = 403 THEN Raise(c1, "NoPermission")
          ELSE IF c1.resp # 201 THEN Raise(c1, "Exception")
          ELSE Return([c1 EXCEPT !.db[Lower(table)] =
                          Append(@, Stored(Lower(table), Len(@) + 1, data))],
                      Stored(Lower(table), Len(c1.db[Lower(table)]) + 1, data))))

\* dict.update
Updated(current, updated) ==
    [f \in DOMAIN current \cup DOMAIN updated |->
        IF f \in DOMAIN updated THEN updated[f] ELSE current[f]]

\* Session.update_resource
update_resource(c, by, table, resource_id, updated) ==
    Try(ensure_login(c), LAMBDA c0 :
    Try(fetch_resource(c0, by, table, resource_id), LAMBDA c1 :
    Try(send_request(c1, by, "PUT", Lower(table), resource_id,
                     Updated(c1.ret, updated), 200),
        LAMBDA c2 :
          IF c2.resp = 400 THEN Raise(c2, "Exception")
          ELSE IF c2.resp = 409 THEN Raise(c2, "VersionMismatch")
          ELSE IF c2.resp # 200 THEN Raise(c2, "Exception")
          ELSE Return([c2 EXCEPT !.db[Lower(table)][resource_id] =
                                    Updated(c1.ret, updated)],
                      Updated(c1.ret, updated)))))

\* Session.__init__: _hierarchy before any login
NoHierarchy ==
    [Collection |-> -1, Discipline |-> -1, Division |-> -1, Institution |-> -1]

\* Session._init_session: the collections /context/login/ lists
Collections == [KUFishvoucher |-> 1]

\* Session.get_collection_id
get_collection_id(collection_name) ==
    IF collection_name \in DOMAIN Collections THEN Collections[collection_name]
    ELSE NoId

\* Session.get_domain_id
get_domain_id(c, scope) == IF scope \in DOMAIN c.hier THEN c.hier[scope] ELSE NoId

\* what json.loads gives for the JSON body of an error response
ErrorObject == [detail |-> "error"]

\* Session._update_hierarchy
update_hierarchy(c, collection_id) ==
    Try(fetch_resource(c, "login", "collection", collection_id), LAMBDA c1 :
    Try(fetch_resource(c1, "login", "discipline",
                       extract_id_from_uri(c1.ret.discipline)), LAMBDA c2 :
    Try(fetch_resource(c2, "login", "division",
                       extract_id_from_uri(c2.ret.division)), LAMBDA c3 :
        [c3 EXCEPT !.hier =
                     [Collection |-> collection_id,
                      Discipline |-> extract_id_from_uri(c1.ret.discipline),
                      Division |-> extract_id_from_uri(c2.ret.division),
                      Institution |-> extract_id_from_uri(c3.ret.institution)],
                   !.ret = None])))

\* Session.login
login(c, username, password, collection_id) ==
    Try(send_request(c, "login", "PUT", "/context/login/", NoId,
                     [username |-> username, password |-> password,
                      collection |-> collection_id], 204), LAMBDA r :
        IF r.resp = 403 THEN Raise(r, "InvalidCredentials")
        ELSE IF r.resp = 400 THEN Raise(r, "Exception")
        ELSE
    Try(send_request(r, "login", "GET", "/context/user.json", NoId, None, 200),
        LAMBDA c2 :
        IF c2.resp # 200 /\ ~c2.json THEN Raise(c2, "JSONDecodeError")
        ELSE
    Try([c2 EXCEPT !.user = IF c2.resp = 200 THEN User ELSE ErrorObject],
        LAMBDA c3 :
        IF ~c3.cookie THEN Raise(c3, "KeyError")
        ELSE update_hierarchy([c3 EXCEPT !.csrf = "login"], collection_id))))

\* Session.logout
logout(c) ==
    Try(ensure_login(c), LAMBDA c0 :
    Try(send_request(c0, "logout", "PUT", "/context/login/", NoId,
                     [username |-> None, password |-> None,
                      collection |-> get_domain_id(c0, "Collection")], 204),
        LAMBDA c1 : [c1 EXCEPT !.user = None, !.ret = None]))

----------------------------------------------------------------------------
\* taxon_helpers.py

\* the taxon table's id, from Specify 6's table listing
TAXON_TABLE_ID == 4

\* get_defitem
get_defitem(c, tree_def_id, rank_name) ==
    Try(fetch_collection(c, "get_defitem",
                         [table |-> "taxontreedefitem", name |-> rank_name,
                          treedef |-> tree_def_id]), LAMBDA c1 :
        IF Len(c1.ret) = 0 THEN Raise(c1, "Exception")
        ELSE Return(c1, c1.ret[1]))

\* get_taxon; parent_name is NoneStr when not given
get_taxon(c, name, tree_def_item_id, parent_name) ==
    Try(fetch_collection(c, "get_taxon",
                         [table |-> "taxon", name |-> name,
                          definitionitem |-> tree_def_item_id,
                          parent__name |-> parent_name]), LAMBDA c1 :
        IF Len(c1.ret) = 0 THEN Return(c1, None)
        ELSE Return(c1, c1.ret[1]))

\* update_author
update_author(c, taxon, author) ==
    IF taxon.author = author THEN Return(c, taxon)
    ELSE update_resource(c, "update_author", "taxon", taxon.id,
                         [author |-> author])

\* create_accepted_taxon(session, def_item, name, parent, author=None):
\* imported by main.py, its body is not part of the sources.  It creates an
\* accepted taxon of the given rank and name under parent; reading the URI of
\* a parent that is None raises.
create_accepted_taxon(c, def_item, name, parent, author) ==
    IF parent = None THEN Raise(c, "TypeError")
    ELSE create_resource(c, "create_accepted_taxon", "taxon",
            TaxonData(name, author, None, TRUE, def_item.resource_uri,
                      parent.resource_uri))

----------------------------------------------------------------------------
\* main.py

\* the globals before fetch_tree_info
NoTreeInfo ==
    [TREE_DEF_ID |-> NoId, MAMMALIA |-> None,
     DEF_ITEMS |-> [Order |-> None, Family |-> None, Genus |-> None,
                    Species |-> None]]

\* DEF_ITEMS.keys(), in the dict's order
RankNames == <<"Order", "Family", "Genus", "Species">>

\* fetch_tree_info, lines 73-76: Mammalia is missing
create_mammalia(c, class_def_item) ==
    Try(get_defitem(c, c.g.TREE_DEF_ID, "Phylum"), LAMBDA c1 :
    Try(get_taxon(c1, "Chordata", c1.ret.id, NoneStr), LAMBDA c2 :
    Try(create_accepted_taxon(c2, class_def_item, "Mammalia", c2.ret, NoneStr),
        LAMBDA c3 : [c3 EXCEPT !.g.MAMMALIA = c3.ret])))

\* fetch_tree_info
fetch_tree_info(c, discipline) ==
    Try([c EXCEPT !.g.TREE_DEF_ID = extract_id_from_uri(discipline.taxontreedef)],
        LAMBDA c0 :
    Try(get_defitem(c0, c0.g.TREE_DEF_ID, "Class"), LAMBDA c1 :
    Try(get_taxon(c1, "Mammalia", c1.ret.id, NoneStr), LAMBDA c2 :
    Try(IF c2.ret = None
        THEN create_mammalia([c2 EXCEPT !.g.MAMMALIA = None], c1.ret)
        ELSE [c2 EXCEPT !.g.MAMMALIA = c2.ret], LAMBDA c3 :
    Try(get_defitem(c3, c3.g.TREE_DEF_ID, "Order"), LAMBDA c4 :
    Try(get_defitem([c4 EXCEPT !.g.DEF_ITEMS.Order = c4.ret],
                    c4.g.TREE_DEF_ID, "Family"), LAMBDA c5 :
    Try(get_defitem([c5 EXCEPT !.g.DEF_ITEMS.Family = c5.ret],
                    c5.g.TREE_DEF_ID, "Genus"), LAMBDA c6 :
    Try(get_defitem([c6 EXCEPT !.g.DEF_ITEMS.Genus = c6.ret],
                    c6.g.TREE_DEF_ID, "Species"), LAMBDA c7 :
        [c7 EXCEPT !.g.DEF_ITEMS.Species = c7.ret, !.ret = None]))))))))

\* the tree_info_fetched decorator's check
tree_info_fetched(c) ==
    IF \/ c.g.MAMMALIA = None
       \/ c.g.TREE_DEF_ID = NoId
       \/ \E r \in DOMAIN c.g.DEF_ITEMS : c.g.DEF_ITEMS[r] = None
    THEN Raise(c, "Exception")
    ELSE c

\* accepted_genus creating the genus without looking for it
accepted_genus_unsought(c, row) ==
    Try(get_taxon(c, "Uploaded", c.g.DEF_ITEMS.Family.id, "Uploaded"),
        LAMBDA c2 :
        create_accepted_taxon(c2, c2.g.DEF_ITEMS.Genus, row.AcceptedGenus,
                              c2.ret, NoneStr))

\* get_accepted, lines 163-171: the accepted genus, created when missing
accepted_genus(c, row) ==
    Try(get_taxon(c, row.AcceptedGenus, c.g.DEF_ITEMS.Genus.id, NoneStr),
        LAMBDA c1 :
        IF c1.ret # None THEN c1
        ELSE
    Try(get_taxon(c1, "Uploaded", c1.g.DEF_ITEMS.Family.id, "Uploaded"),
        LAMBDA c2 :
        create_accepted_taxon(c2, c2.g.DEF_ITEMS.Genus, row.AcceptedGenus,
                              c2.ret, NoneStr)))

\* get_accepted's body
accepted_uri(c, row) ==
    Try(tree_info_fetched(c), LAMBDA c0 :
        IF row.isAccepted = "Yes" THEN Return(c0, None)
        ELSE
    Try(get_taxon(c0, row.AcceptedSpecies, c0.g.DEF_ITEMS.Species.id,
                  row.AcceptedGenus), LAMBDA c1 :
        IF c1.ret # None
        THEN Try(update_author(c1, c1.ret, row.AcceptedAuthor), LAMBDA c2 :
                 Return(c2, c2.ret.resource_uri))
        ELSE
    Try(accepted_genus(c1, row), LAMBDA c3 :
    Try(create_accepted_taxon(c3, c3.g.DEF_ITEMS.Species, row.AcceptedSpecies,
                              c3.ret, row.AcceptedAuthor), LAMBDA c4 :
        Return(c4, c4.ret.resource_uri)))))

\* get_accepted, noting the call: the row, the taxon table and the requests
\* sent before it, and the same with the value returned after it
get_accepted(c, row) ==
    CHOOSE r \in {[c1 EXCEPT !.acc =
                      [row |-> row, before |-> c.db["taxon"], sent |-> c.n,
                       after |-> c1.db["taxon"], sentAfter |-> c1.n,
                       exc |-> c1.exc, ret |-> c1.ret]] :
                  c1 \in {accepted_uri(c, row)}} : TRUE

\* synonymize_taxon
synonymize_taxon(c, row, taxon) ==
    Try(tree_info_fetched(c), LAMBDA c0 :
    Try(get_accepted(c0, row), LAMBDA c1 :
        update_resource(c1, "synonymize_taxon", "taxon", taxon.id,
                        [isaccepted |-> FALSE, acceptedtaxon |-> c1.ret])))

\* get_or_create_taxon
get_or_create_taxon(c, row, rank_name, parent_taxon) ==
    LET isAccepted == row.isAccepted = "Yes" /\ rank_name = "Species"
        author == IF rank_name = "Species" THEN row.Author ELSE NoneStr
    IN
    Try(tree_info_fetched(c), LAMBDA c0 :
    Try(get_taxon(c0, row[rank_name], c0.g.DEF_ITEMS[rank_name].id,
                  parent_taxon.name), LAMBDA c1 :
        IF c1.ret # None
        THEN Try(IF rank_name = "Species" /\ c1.ret.isaccepted = TRUE
                    /\ isAccepted = FALSE
                 THEN synonymize_taxon(c1, row, c1.ret)
                 ELSE c1, LAMBDA c2 :
                 IF author = NoneStr THEN c2
                 ELSE update_author(c2, c2.ret, author))
        ELSE
    Try(IF rank_name = "Species" THEN get_accepted(c1, row)
        ELSE Return(c1, None), LAMBDA c3 :
        create_resource(c3, "get_or_create_taxon", "taxon",
            TaxonData(row[rank_name], author, c3.ret, isAccepted,
                      c3.g.DEF_ITEMS[rank_name].resource_uri,
                      parent_taxon.resource_uri)))))

\* proccess_row's loop over the ranks, from the i-th on
RECURSIVE walk(_, _, _, _)
walk(c, row, i, parent_taxon) ==
    IF i > Len(RankNames) THEN Return(c, parent_taxon.id)
    ELSE Try(get_or_create_taxon(c, row, RankNames[i], parent_taxon),
             LAMBDA c1 : walk(c1, row, i + 1, c1.ret))

\* proccess_row
proccess_row(c, row) ==
    Try(tree_info_fetched(c), LAMBDA c0 : walk(c0, row, 1, c0.g.MAMMALIA))

----------------------------------------------------------------------------
\* The import run: main()

\* the values the CSV's columns take
Row(order, isAccepted, acceptedGenus, acceptedSpecies, acceptedAuthor) ==
    [Order |-> order, Family |-> "F", Genus |-> "G", Species |-> "S",
     isAccepted |-> isAccepted, Author |-> "A",
     AcceptedGenus |-> acceptedGenus, AcceptedSpecies |-> acceptedSpecies,
     AcceptedAuthor |-> acceptedAuthor]

Rows ==
    {Row(o, "Yes", "", "", "") : o \in {"O1", "O2"}}
    \cup {Row(o, "No", ag, "S", aa) :
            o \in {"O1", "O2"}, ag \in {"G", "H"}, aa \in {"A", "B"}}

\* the CSV files of at most MaxRows rows
RECURSIVE Csvs(_)
Csvs(n) ==
    IF n = 0 THEN {<<>>}
    ELSE LET shorter == Csvs(n - 1)
         IN shorter \cup {Append(f, r) : f \in {g \in shorter : Len(g) = n - 1},
                                         r \in Rows}

\* the taxon tables the run may find: nothing, the phylum, the class under
\* it, and the "Uploaded" family that get_accepted files new genera under
SeedTaxon(name, rank, parent) ==
    TaxonData(name, NoneStr, None, TRUE,
              construct_api_link("taxontreedefitem", rank), parent)

SeedTaxa ==
    LET datas == << SeedTaxon("Chordata", 1, None),
                    SeedTaxon("Mammalia", 2, construct_api_link("taxon", 1)),
                    SeedTaxon("Uploaded", 3, construct_api_link("taxon", 2)),
                    SeedTaxon("Uploaded", 4, construct_api_link("taxon", 3)) >>
    IN [i \in 1..Len(datas) |-> Stored("taxon", i, datas[i])]

InitialTaxa == {SubSeq(SeedTaxa, 1, n) : n \in {0, 1, 2, 4}}

InitialDb(seed) ==
    [taxon |-> seed, taxontreedefitem |-> DefItemTable,
     recordset |-> <<>>, recordsetitem |-> <<>>] @@ ScopeTables

\* the state after Session(domain=...), main.py line 32
InitWith(files, seeds) ==
    /\ db \in {InitialDb(seed) : seed \in seeds}
    /\ csv \in files
    /\ TREE_DEF_ID = NoTreeInfo.TREE_DEF_ID
    /\ MAMMALIA = NoTreeInfo.MAMMALIA
    /\ DEF_ITEMS = NoTreeInfo.DEF_ITEMS
    /\ taxon_ids = <<>>
    /\ record_set = None
    /\ pc = "login"
    /\ log = <<>>
    /\ prevTaxa = <<>>
    /\ accepted = None
    /\ specifyuser = None
    /\ hierarchy = NoHierarchy
    /\ csrf = "init"
    /\ last = [op |-> "init", arg |-> None, exc |-> NoExc, before |-> None]

Init == InitWith(Csvs(MaxRows), InitialTaxa)

Globals == [TREE_DEF_ID |-> TREE_DEF_ID, MAMMALIA |-> MAMMALIA,
            DEF_ITEMS |-> DEF_ITEMS]

Sess == [user |-> specifyuser, hier |-> hierarchy, csrf |-> csrf]

\* Leave with the exception caught and the run going on
Leave_caught(c, next) ==
    /\ db' = c.db
    /\ TREE_DEF_ID' = c.g.TREE_DEF_ID
    /\ MAMMALIA' = c.g.MAMMALIA
    /\ DEF_ITEMS' = c.g.DEF_ITEMS
    /\ specifyuser' = c.user
    /\ hierarchy' = c.hier
    /\ csrf' = c.csrf
    /\ log' = c.log
    /\ prevTaxa' = db["taxon"]
    /\ accepted' = c.acc
    /\ pc' = next
    /\ UNCHANGED <<csv, last>>

\* what a step of main() leaves: the store, the globals, the session and
\* the requests it sent; an exception ends the run
Leave(c, next) ==
    /\ db' = c.db
    /\ TREE_DEF_ID' = c.g.TREE_DEF_ID
    /\ MAMMALIA' = c.g.MAMMALIA
    /\ DEF_ITEMS' = c.g.DEF_ITEMS
    /\ specifyuser' = c.user
    /\ hierarchy' = c.hier
    /\ csrf' = c.csrf
    /\ log' = c.log
    /\ prevTaxa' = db["taxon"]
    /\ accepted' = c.acc
    /\ pc' = IF Raised(c) THEN "failed" ELSE next
    /\ UNCHANGED <<csv, last>>

\* main.py lines 33-35
main_login(c) == login(c, "sp7demofish", "sp7demofish",
                       get_collection_id("KUFishvoucher"))

\* main.py lines 37-39
main_tree_info(c) ==
    Try(fetch_resource(c, "main", "discipline", get_domain_id(c, "Discipline")),
        LAMBDA c1 : fetch_tree_info(c1, c1.ret))

\* main.py lines 46-54
main_recordset(c) ==
    create_resource(c, "main", "recordset",
        [collectionmemberid |-> get_domain_id(c, "Collection"),
         dbtableid |-> TAXON_TABLE_ID,
         name |-> "Imported Species (Api Demo)",
         type |-> 0, version |-> 0,
         specifyuser |-> c.user.resource_uri])

\* main_item filing every item under the first taxon id
main_item_first(c, taxon_id, set) ==
    create_resource(c, "main", "recordsetitem",
        [recordid |-> taxon_ids[1], recordset |-> set.resource_uri])

\* main.py lines 57-61
main_item(c, taxon_id, set) ==
    create_resource(c, "main", "recordsetitem",
        [recordid |-> taxon_id, recordset |-> set.resource_uri])

\* the servers a step may meet: a regular one, or one failing any one of the
\* requests the step sends
Servers(n) == {Regular} \cup {FailAt(k) : k \in 1..n}

Login ==
    /\ pc = "login"
    /\ \E inj \in Servers(main_login(Ctx(db, Globals, Sess, Regular)).n) :
         \E c \in {main_login(Ctx(db, Globals, Sess, inj))} :
            /\ Leave(c, "tree_info")
            /\ UNCHANGED <<taxon_ids, record_set>>

FetchTreeInfo ==
    /\ pc = "tree_info"
    /\ \E inj \in Servers(main_tree_info(Ctx(db, Globals, Sess, Regular)).n) :
         \E c \in {main_tree_info(Ctx(db, Globals, Sess, inj))} :
            /\ Leave(c, "rows")
            /\ UNCHANGED <<taxon_ids, record_set>>

\* main.py line 43: one row of the list comprehension
ProcessRow ==
    /\ pc = "rows"
    /\ Len(taxon_ids) < Len(csv)
    /\ LET row == csv[Len(taxon_ids) + 1]
       IN \E inj \in Servers(proccess_row(Ctx(db, Globals, Sess, Regular), row).n) :
            \E c \in {proccess_row(Ctx(db, Globals, Sess, inj), row)} :
               /\ Leave(c, "rows")
               /\ taxon_ids' = IF Raised(c) THEN taxon_ids
                               ELSE Append(taxon_ids, c.ret)
               /\ UNCHANGED record_set

CreateRecordset ==
    /\ pc = "rows"
    /\ Len(taxon_ids) = Len(csv)
    /\ \E inj \in Servers(1) :
         \E c \in {main_recordset(Ctx(db, Globals, Sess, inj))} :
            /\ Leave(c, "items")
            /\ record_set' = IF Raised(c) THEN record_set ELSE c.ret
            /\ UNCHANGED taxon_ids

\* main.py lines 56-61: one taxon id of the loop
CreateItem ==
    /\ pc = "items"
    /\ Len(db["recordsetitem"]) < Len(taxon_ids)
    /\ \E inj \in Servers(1) :
         \E c \in {main_item(Ctx(db, Globals, Sess, inj),
                              taxon_ids[Len(db["recordsetitem"]) + 1],
                              record_set)} :
            /\ Leave(c, "items")
            /\ UNCHANGED <<taxon_ids, record_set>>

Finish ==
    /\ pc = "items"
    /\ Len(db["recordsetitem"]) = Len(taxon_ids)
    /\ pc' = "done"
    /\ UNCHANGED <<db, TREE_DEF_ID, MAMMALIA, DEF_ITEMS, csv, taxon_ids,
                   record_set, log, prevTaxa, accepted, specifyuser,
                   hierarchy, csrf, last>>

Next ==
    \/ Login
    \/ FetchTreeInfo
    \/ ProcessRow
    \/ CreateRecordset
    \/ CreateItem
    \/ Finish

Spec == Init /\ [][Next]_vars

----------------------------------------------------------------------------
\* A client of Session calling its methods in any order

\* the most records the client's taxon table grows to
MaxRecords == 5

\* servers answering regularly, or one of the first n requests with any status
AnyServer(n, jsons, cookies) ==
    {[Regular EXCEPT !.cookie = ck] : ck \in cookies}
    \cup {[failAt |-> k, status |-> st, json |-> j, cookie |-> ck] :
            k \in 1..n, st \in Statuses, j \in jsons, ck \in cookies}

\* what a call leaves: the store, the session, the requests sent, and in
\* last the call, its argument, the exception it raised and the session it
\* started in
Called(op, arg, c) ==
    /\ db' = c.db
    /\ specifyuser' = c.user
    /\ hierarchy' = c.hier
    /\ csrf' = c.csrf
    /\ log' = c.log
    /\ prevTaxa' = db["taxon"]
    /\ last' = [op |-> op, arg |-> arg, exc |-> c.exc,
                before |-> [user |-> specifyuser, hier |-> hierarchy,
                            csrf |-> csrf]]
    /\ UNCHANGED <<TREE_DEF_ID, MAMMALIA, DEF_ITEMS, csv, taxon_ids,
                   record_set, pc, accepted>>

CallLogin ==
    \E inj \in AnyServer(5, BOOLEAN, BOOLEAN) :
      \E c \in {main_login(Ctx(db, Globals, Sess, inj))} :
         Called("login", None, c)

CallLogout ==
    \E inj \in AnyServer(1, {TRUE}, {TRUE}) :
      \E c \in {logout(Ctx(db, Globals, Sess, inj))} :
         Called("logout", None, c)

CallFetchResource ==
    \E inj \in AnyServer(1, {TRUE}, {TRUE}), id \in {1, Len(db["taxon"])} :
      \E c \in {fetch_resource(Ctx(db, Globals, Sess, inj), "client", "taxon", id)} :
         Called("fetch_resource", None, c)

CallFetchCollection ==
    \E inj \in AnyServer(1, {TRUE}, {TRUE}), name \in {"Mammalia", "Uploaded"} :
      \E c \in {fetch_collection(Ctx(db, Globals, Sess, inj), "client",
                    [table |-> "taxon", name |-> name, definitionitem |-> 2,
                     parent__name |-> NoneStr])} :
         Called("fetch_collection", None, c)

CallCreateResource ==
    /\ Len(db["taxon"]) < MaxRecords
    /\ \E inj \in AnyServer(1, {TRUE}, {TRUE}) :
         \E c \in {create_resource(Ctx(db, Globals, Sess, inj), "client", "taxon",
                      SeedTaxon("O1", 3, construct_api_link("taxon", 2)))} :
            Called("create_resource", None, c)

CallUpdateResource ==
    \E inj \in AnyServer(2, {TRUE}, {TRUE}), author \in {"A"} :
      \E c \in {update_resource(Ctx(db, Globals, Sess, inj), "client", "taxon",
                                Len(db["taxon"]), [author |-> author])} :
         Called("update_resource", None, c)

CallSendRequest ==
    \E method \in {"GET", "TRACE", "FETCH"} :
      \E c \in {send_request(Ctx(db, Globals, Sess, Regular), "client", method,
                             "/context/login/", NoId, None, 200)} :
         Called("send_request", <<method>>, c)

SessionInit == InitWith({<<>>}, {SeedTaxa})

SessionNext ==
    \/ CallLogin
    \/ CallLogout
    \/ CallFetchResource
    \/ CallFetchCollection
    \/ CallCreateResource
    \/ CallUpdateResource
    \/ CallSendRequest

SessionSpec == SessionInit /\ [][SessionNext]_vars

----------------------------------------------------------------------------
\* Properties of the import run

taxa == db["taxon"]

\* the last step processed row number Len(taxon_ids) without an exception
RowDone == pc = "rows" /\ Len(taxon_ids) >= 1

\* the requests of the last step that write to the store
Writes == SelectSeq(log, LAMBDA e : e.method \in {"POST", "PUT"})

\* the last step ran proccess_row on the same row as the step before it
Rerun ==
    /\ RowDone
    /\ Len(taxon_ids) >= 2
    /\ csv[Len(taxon_ids)] = csv[Len(taxon_ids) - 1]

\* C1: running proccess_row on a row a second time, right after a first
\* successful run, sends no POST and no PUT, leaves the taxon records as
\* they are and returns the same Species id.
C1_Idempotent ==
    Rerun => /\ Writes = <<>>
             /\ taxa = prevTaxa
             /\ taxon_ids[Len(taxon_ids)] = taxon_ids[Len(taxon_ids) - 1]

\* the last step processed a row that names itself as its accepted taxon
\* for the second time in a row, having created the Species the first time
C1_Failing ==
    /\ Rerun
    /\ csv[1].isAccepted = "No"
    /\ csv[1].AcceptedGenus = csv[1].Genus
    /\ csv[1].AcceptedSpecies = csv[1].Species
    /\ Writes # <<>>

\* a request of the last step was answered with an error status
ErrorStatus(e) == e.status \notin {200, 201, 204}

\* an API call of main() after the login was answered with an error
ApiError ==
    /\ log # <<>>
    /\ log[1].by # "login"
    /\ \E i \in DOMAIN log : ErrorStatus(log[i])

\* C2: an API call that raises ends the run: nothing is done after it, and
\* the recordset and its items are created only once every row of the CSV
\* has been processed without an exception.
C2_ErrorTerminates ==
    /\ [](ApiError => pc = "failed")
    /\ [](db["recordset"] # <<>> \/ db["recordsetitem"] # <<>>
            => Len(taxon_ids) = Len(csv) /\ record_set # None)
    /\ [][pc # "failed"]_vars

\* a row raised after an earlier row was processed
C2_Witness ==
    /\ pc = "failed"
    /\ ApiError
    /\ Len(taxon_ids) >= 1
    /\ Len(taxon_ids) < Len(csv)
    /\ db["recordset"] = <<>>

\* the payload is an accepted taxon, or a synonym pointing to one
WellFormed(data) ==
    \/ data.isaccepted = TRUE /\ data.acceptedtaxon = None
    \/ data.isaccepted = FALSE /\ data.acceptedtaxon # None

\* C3: every taxon payload get_or_create_taxon creates and synonymize_taxon
\* writes is accepted with no accepted taxon, or not accepted with one.
C3_WrittenWellFormed ==
    \A i \in DOMAIN log :
        (log[i].by \in {"get_or_create_taxon", "synonymize_taxon"}
            /\ log[i].method \in {"POST", "PUT"})
        => WellFormed(log[i].data)

\* C4: after get_or_create_taxon returns for the Species rank, the Species
\* record is accepted exactly when the row's isAccepted is 'Yes'.
C4_SpeciesMatchesRow ==
    RowDone =>
        (taxa[taxon_ids[Len(taxon_ids)]].isaccepted = TRUE
            <=> csv[Len(taxon_ids)].isAccepted = "Yes")

\* the parent record of a taxon record
Parent(t) == taxa[extract_id_from_uri(t.parent)]

\* C8: the Species proccess_row returns is the row's Species under the row's
\* Genus under the row's Family under the row's Order under Mammalia.
C8_ParentChain ==
    RowDone =>
        LET row == csv[Len(taxon_ids)]
            species == taxa[taxon_ids[Len(taxon_ids)]]
        IN /\ species.name = row.Species
           /\ Parent(species).name = row.Genus
           /\ Parent(Parent(species)).name = row.Family
           /\ Parent(Parent(Parent(species))).name = row.Order
           /\ Parent(Parent(Parent(species))).parent = MAMMALIA.resource_uri

\* C10: every synonym in the store points to another taxon that is accepted.
C10_SynonymsPointToAccepted ==
    \A i \in DOMAIN taxa :
        (taxa[i].isaccepted = FALSE /\ taxa[i].acceptedtaxon # None)
        => /\ extract_id_from_uri(taxa[i].acceptedtaxon) # i
           /\ taxa[extract_id_from_uri(taxa[i].acceptedtaxon)].isaccepted = TRUE

\* C7: main creates one recordset named 'Imported Species (Api Demo)' and
\* then one recordsetitem per CSV row, in row order, whose recordid is the
\* id of the Species proccess_row returned for the row and whose recordset
\* is the created recordset.
C7_RecordsetPerRun ==
    /\ db["recordsetitem"] # <<>> => Len(db["recordset"]) = 1
    /\ pc = "done" =>
        /\ Len(db["recordset"]) = 1
        /\ db["recordset"][1].name = "Imported Species (Api Demo)"
        /\ Len(db["recordsetitem"]) = Len(csv)
        /\ \A i \in DOMAIN csv :
            /\ db["recordsetitem"][i].recordid = taxon_ids[i]
            /\ db["recordsetitem"][i].recordset = db["recordset"][1].resource_uri
            /\ taxa[taxon_ids[i]].name = csv[i].Species
            /\ taxa[taxon_ids[i]].definitionitem = DEF_ITEMS.Species.resource_uri

\* a finished run of two rows that resolved to the same Species
C7_Witness ==
    /\ pc = "done"
    /\ Len(csv) = 2
    /\ Len(db["recordsetitem"]) = 2
    /\ taxon_ids[1] = taxon_ids[2]

\* get_accepted was called in the last step and returned
AcceptedReturned == accepted # None /\ accepted.exc = NoExc

\* the taxa of a table with the name and rank; parent_name as in get_taxon
Named(table, name, rank_name, parent_name) ==
    {i \in DOMAIN table :
        /\ table[i].name = name
        /\ table[i].definitionitem = DEF_ITEMS[rank_name].resource_uri
        /\ parent_name # NoneStr =>
            /\ table[i].parent # None
            /\ table[extract_id_from_uri(table[i].parent)].name = parent_name}

\* C6: get_accepted returns None, sending no request, exactly when the row's
\* isAccepted is 'Yes'; otherwise it returns the URI of a Species named
\* AcceptedSpecies under a parent named AcceptedGenus with author
\* AcceptedAuthor, creating the Species only when there was none, and the
\* Genus only when there was neither the Species nor a Genus of that name.
C6_GetAccepted ==
    AcceptedReturned =>
        LET row == accepted.row
            before == accepted.before
            after == accepted.after
            hadSpecies == Named(before, row.AcceptedSpecies, "Species",
                                row.AcceptedGenus) # {}
            hadGenus == Named(before, row.AcceptedGenus, "Genus", NoneStr) # {}
        IN /\ accepted.ret = None <=> row.isAccepted = "Yes"
           /\ row.isAccepted = "Yes" =>
                accepted.sentAfter = accepted.sent /\ after = before
           /\ row.isAccepted # "Yes" =>
                /\ parse_uri(accepted.ret)[1] = "taxon"
                /\ extract_id_from_uri(accepted.ret)
                      \in Named(after, row.AcceptedSpecies, "Species",
                                row.AcceptedGenus)
                /\ after[extract_id_from_uri(accepted.ret)].author
                      = row.AcceptedAuthor
                /\ Len(after) - Len(before)
                      = IF hadSpecies THEN 0 ELSE IF hadGenus THEN 1 ELSE 2
                /\ hadSpecies =>
                      extract_id_from_uri(accepted.ret) \in DOMAIN before

\* get_accepted created the accepted Genus and the accepted Species
C6_Witness ==
    /\ AcceptedReturned
    /\ accepted.row.isAccepted = "No"
    /\ Len(accepted.after) = Len(accepted.before) + 2

\* get_accepted found the accepted Species and changed its author
C6_WitnessExisting ==
    /\ AcceptedReturned
    /\ accepted.row.isAccepted = "No"
    /\ Len(accepted.after) = Len(accepted.before)
    /\ accepted.after # accepted.before

\* what get_taxon's callers tell taxa apart by: name, rank and parent
TaxonKey(t) == <<t.name, t.definitionitem, t.parent>>

\* the i-th request of the last step created a taxon
Creates(i) ==
    /\ log[i].method = "POST"
    /\ log[i].table = "taxon"
    /\ log[i].status = 201

\* the names, ranks and parents in the store when the i-th request of the
\* last step was sent: those before the step and those it had created
KeysBefore(i) ==
    {TaxonKey(prevTaxa[j]) : j \in DOMAIN prevTaxa}
    \cup {TaxonKey(log[j].data) : j \in {k \in 1..(i - 1) : Creates(k)}}

\* the i-th request of the last step is a create of get_or_create_taxon or
\* of get_accepted
RowCreate(i) ==
    /\ Creates(i)
    /\ \/ log[i].by = "get_or_create_taxon"
       \/ log[i].by = "create_accepted_taxon" /\ accepted # None

\* no two taxa of the table share name, rank and parent
Distinct(table) ==
    \A i, j \in DOMAIN table :
        TaxonKey(table[i]) = TaxonKey(table[j]) => i = j

\* C11: every create get_or_create_taxon or get_accepted issues is for a
\* name, rank and parent absent from the store at the moment of the create,
\* so no two taxa of the store ever share name, rank and parent.
C11_NoDuplicateCreate ==
    /\ \A i \in DOMAIN log :
          RowCreate(i) => TaxonKey(log[i].data) \notin KeysBefore(i)
    /\ Distinct(taxa)

\* get_or_create_taxon created the Species get_accepted had just created
\* in the same step, under the same Genus
C11_Failing ==
    /\ RowDone
    /\ Distinct(prevTaxa)
    /\ \E i, j \in DOMAIN log :
          /\ i < j
          /\ RowCreate(i) /\ log[i].by = "create_accepted_taxon"
          /\ RowCreate(j) /\ log[j].by = "get_or_create_taxon"
          /\ TaxonKey(log[j].data) = TaxonKey(log[i].data)

----------------------------------------------------------------------------
\* Properties of the session

\* the methods the ensure_login decorator guards
Guarded == {"fetch_resource", "fetch_collection", "create_resource",
            "update_resource", "logout"}

\* C5: while specifyuser is None each guarded method raises 'Must be logged
\* in', sends no request and changes neither the session nor the store; once
\* a login has succeeded they do not raise it until logout.
C5_MustBeLoggedIn ==
    /\ last.op \in Guarded /\ last.before.user = None =>
        /\ last.exc = "Must be logged in"
        /\ log = <<>>
        /\ specifyuser = None
        /\ hierarchy = last.before.hier
        /\ csrf = last.before.csrf
        /\ taxa = prevTaxa
    /\ last.op \in Guarded /\ last.before.user # None =>
        /\ last.exc # "Must be logged in"
        /\ last.op # "logout" => specifyuser = last.before.user
        /\ last.op = "logout" /\ last.exc = NoExc => specifyuser = None
    /\ last.op = "login" /\ last.exc = NoExc => specifyuser # None

\* a guarded method was refused after a login and a logout
C5_Witness ==
    /\ last.op \in Guarded \ {"logout"}
    /\ last.before.user = None
    /\ last.exc = "Must be logged in"
    /\ hierarchy # NoHierarchy

\* C9: a 403 answer to fetch_resource, fetch_collection, create_resource or
\* update_resource (to its GET or its PUT) raises NoPermission; a 403 to
\* login raises InvalidCredentials; a 409 to update_resource's PUT raises
\* VersionMismatch; a method requests.Session does not provide raises
\* InvalidMethod with no request sent.
C9_ErrorsMapped ==
    /\ (/\ last.op \in {"fetch_resource", "fetch_collection",
                        "create_resource", "update_resource"}
        /\ \E i \in DOMAIN log : log[i].status = 403)
       => last.exc = "NoPermission"
    /\ (last.op = "login" /\ log[1].status = 403)
       => last.exc = "InvalidCredentials"
    /\ (last.op = "update_resource" /\ Len(log) = 2 /\ log[2].status = 409)
       => last.exc = "VersionMismatch"
    /\ (last.op = "send_request" /\ last.arg[1] \notin Provided)
       => last.exc = "InvalidMethod" /\ log = <<>>

\* update_resource's PUT was answered 403
C9_Failing ==
    /\ last.op = "update_resource"
    /\ Len(log) = 2
    /\ log[2].status = 403
    /\ last.exc = "Exception"

\* Session.login raised, called on a session that was logged out
LoginFailed ==
    /\ last.op = "login"
    /\ last.exc # NoExc
    /\ last.before.user = None

\* C12: when Session.login raises on a logged-out session, specifyuser is
\* still None and the hierarchy ids are unchanged; so until a login has
\* succeeded, each guarded method keeps raising 'Must be logged in'.
C12_FailedLoginLoggedOut ==
    /\ LoginFailed => specifyuser = None /\ hierarchy = last.before.hier
    /\ last.op \in Guarded /\ hierarchy = NoHierarchy =>
          last.exc = "Must be logged in"

\* login raised after the login request and /context/user.json were
\* answered (no csrftoken cookie, or a hierarchy fetch failed) and left
\* specifyuser set
C12_Failing ==
    /\ LoginFailed
    /\ last.exc \in {"KeyError", "NoPermission", "Exception"}
    /\ Len(log) >= 2
    /\ specifyuser # None
    /\ hierarchy = NoHierarchy

====
